---- MODULE Spec2Model ----
(***************************************************************************)
(* Model of the provider-agnostic text-generation facade (agent.py) and    *)
(* of the configuration module it reads (config.py).                       *)
(*                                                                         *)
(* State: the process environment, the configuration object built when    *)
(* config.py is imported, the AIAgent object built by AIAgent(), the SQL   *)
(* table behind SQLChatMessageHistory, and the AIAgent.invoke calls in     *)
(* flight.  Ghost state records what each finished call returned.          *)
(***************************************************************************)
EXTENDS Integers, Sequences, FiniteSets, TLC

\* ------------------------------------------------------------------ bounds
MaxCalls == 2            \* successful AIAgent.invoke calls in one behaviour

Callers == {"c1", "c2"}  \* concurrent callers of AIAgent.invoke
Sessions == {"s1", "s2"}
Inputs == {"hi", "how are you"}

\* ------------------------------------------------------- Python-level values
None == "<None>"                       \* Python None / an unset variable

Truthy(s) == s # None /\ s # ""        \* truth value of an optional string

\* str.lower() on the values the ENVIRONMENT variable takes here
Lower(s) ==
    IF s \in {"PRODUCTION", "production"} THEN "production"
    ELSE IF s \in {"development"} THEN "development"
    ELSE s

\* os.getenv(name, default) against the environment e
getenv(e, name, default) == IF e[name] = None THEN default ELSE e[name]

EnvironmentValues == {None, "production", "PRODUCTION"}
ApiKeyValues == {None, "", "key"}
GeminiModelValues == {None, "", "gemini-1.5-flash"}
OllamaModelValues == {None, "", "llama3"}
OllamaUrlValues == {None, "http://localhost:11434"}
DatabaseUrlValues == {None, "", "sqlite:///prod_memory.db"}

FallbackText == "Sorry, there was an error generating a response."
SystemText == "You are a helpful AI assistant. Keep your answers concise."

VARIABLES
    env,             \* os.environ, the variables the program reads
    pc,              \* "start" | "loaded" | "constructed" | "failed"
    config,          \* config.config, built when config.py is imported
    agent,           \* the AIAgent object's fields
    genai_api_key,   \* the key handed to genai.configure (None: never called)
    db,              \* message_store table: session_id -> stored messages
    calls,           \* the AIAgent.invoke call of each caller
    produced,        \* ghost: turns produced by the finished calls of a session
    result,          \* ghost: what the last finished facade call did
    genLog           \* ghost: <<prompt, text>> of the generate_text calls answered

vars == <<env, pc, config, agent, genai_api_key, db, calls,
          produced, result, genLog>>

convVars == <<db, calls, produced, result, genLog>>

\* ---------------------------------------------------------------- config.py
NoConfig == [LLM_PROVIDER |-> None, MEMORY_DB_URL |-> None]

DevelopmentConfig(e) == [LLM_PROVIDER |-> "ollama", MEMORY_DB_URL |-> None]

ProductionConfig(e) ==
    [LLM_PROVIDER |-> "gemini", MEMORY_DB_URL |-> e["DATABASE_URL"]]

get_config(e) ==
    IF Lower(getenv(e, "ENVIRONMENT", "development")) = "production"
    THEN ProductionConfig(e)
    ELSE DevelopmentConfig(e)

\* ----------------------------------------------------------------- agent.py
NoLLM == [kind |-> None, model |-> None, target |-> None]

NoAgent ==
    [production_env |-> FALSE, current_model |-> None,
     llm |-> NoLLM, langchain_llm |-> NoLLM]

\* variant: only an unset key counts as missing, an empty one passes
MissingKey_mut(api_key) == api_key = None

\* the test `if not api_key` of _initialize_llm
MissingKey(api_key) == ~Truthy(api_key)

\* AIAgent._initialize_llm: the fields of the object for the environment e
InitializedAgent(e) ==
    LET production_env ==
            Lower(getenv(e, "ENVIRONMENT", "development")) = "production"
    IN IF production_env
       THEN LET api_key == e["GOOGLE_API_KEY"]
                model == getenv(e, "GEMINI_MODEL", "gemini-pro")
            IN [production_env |-> TRUE, current_model |-> model,
                llm |-> [kind |-> "gemini", model |-> model, target |-> api_key],
                langchain_llm |->
                    [kind |-> "gemini", model |-> model, target |-> api_key]]
       ELSE LET host == getenv(e, "OLLAMA_BASE_URL", "http://192.168.1.100:11434")
                model == getenv(e, "OLLAMA_MODEL", "gemma3")
            IN [production_env |-> FALSE, current_model |-> model,
                llm |-> [kind |-> "ollama", model |-> model, target |-> host],
                langchain_llm |->
                    [kind |-> "ollama", model |-> model, target |-> host]]

\* ------------------------------------------------------------- the backend
Message(role, content) == [role |-> role, content |-> content]

\* A deterministic stub backend: the reply text is a function of the message
\* list it is sent (the last message and how much context precedes it).
Reply(msgs) ==
    LET last == msgs[Len(msgs)].content
        n == Len(msgs)
    IN IF n = 1 THEN (IF last = "hi" THEN "hello" ELSE "fine")
       ELSE IF n = 2 THEN (IF last = "hi" THEN "hello!" ELSE "fine, thanks")
       ELSE (IF last = "hi" THEN "hello again" ELSE "still fine")

Outcomes == {"ok", "raise", "malformed"}

\* What a backend call yields: the SDK call raises (transport error), or it
\* returns a response that has, or lacks, the reply field.
BackendCall(msgs, outcome) ==
    IF outcome = "raise"
    THEN [raised |-> TRUE, has_text |-> FALSE, text |-> None]
    ELSE IF outcome = "malformed"
    THEN [raised |-> FALSE, has_text |-> FALSE, text |-> None]
    ELSE [raised |-> FALSE, has_text |-> TRUE, text |-> Reply(msgs)]

\* ------------------------------------------------------------ generate_text
\* variant: the prompt is sent with the system instruction and stored turns
generate_messages_mut(a, user_prompt, stored) ==
    <<Message("system", SystemText)>> \o stored["s1"]
        \o <<Message("user", user_prompt)>>

\* the message list generate_text hands to self.llm: the prompt alone, as
\* generate_content(user_prompt) or as messages=[{'role': 'user', ...}]
generate_messages(a, user_prompt, stored) ==
    IF a.production_env
    THEN <<Message("user", user_prompt)>>
    ELSE <<Message("user", user_prompt)>>

\* variant: the handler catches transport errors only
CaughtByHandler_mut(response) == response.raised

\* except Exception: the handler of generate_text catches what the call or
\* the field access raised
CaughtByHandler(response) == response.raised \/ ~response.has_text

\* try: return response.text / response['message']['content']
\* except Exception: return the fallback string
generate_return(a, response) ==
    IF CaughtByHandler(response)
    THEN [value |-> FallbackText, raised |-> FALSE]
    ELSE IF response.raised \/ ~response.has_text
    THEN [value |-> None, raised |-> TRUE]
    ELSE IF a.production_env
    THEN [value |-> response.text, raised |-> FALSE]
    ELSE [value |-> response.text, raised |-> FALSE]

\* what generate_text does to the stored histories: nothing
generate_store(stored, user_prompt) == stored

NoResult ==
    [op |-> "none", input |-> None, session_id |-> None, outcome |-> None,
     value |-> None, raised |-> FALSE, sent |-> <<>>]

GenerateText ==
    /\ pc = "constructed"
    /\ \E user_prompt \in Inputs, outcome \in Outcomes :
          LET msgs == generate_messages(agent, user_prompt, db)
              response == BackendCall(msgs, outcome)
              ret == generate_return(agent, response)
          IN /\ result' = [op |-> "generate", input |-> user_prompt,
                           session_id |-> None, outcome |-> outcome,
                           value |-> ret.value, raised |-> ret.raised,
                           sent |-> msgs]
             /\ genLog' = IF outcome = "ok" /\ ~ret.raised
                          THEN genLog \cup {<<user_prompt, ret.value>>}
                          ELSE genLog
             /\ db' = generate_store(db, user_prompt)
    /\ UNCHANGED <<env, pc, config, agent, genai_api_key, calls, produced>>

\* ----------------------------------------------------- invoke (with history)
\* AIAgent._get_session_history: the history object for session_id
get_session_history(cfg, table, session_id) ==
    IF cfg.LLM_PROVIDER = "ollama"
    THEN [store |-> "memory", messages |-> <<>>]       \* ChatMessageHistory()
    ELSE IF ~Truthy(cfg.MEMORY_DB_URL)
    THEN [store |-> "memory", messages |-> <<>>]       \* ChatMessageHistory()
    ELSE [store |-> "sql", messages |-> table[session_id]]

\* the ChatPromptTemplate of _initialize_prompt, filled in
format_prompt(history, input) ==
    <<Message("system", SystemText)>> \o history \o <<Message("human", input)>>

\* variant: the new messages replace the stored rows
add_messages_mut(stored, msgs) == msgs

\* BaseChatMessageHistory.add_messages on the stored rows of one session
add_messages(stored, msgs) == stored \o msgs

\* AIAgent.invoke has no exception handler: a backend failure propagates
invoke_return(response) ==
    IF response.raised \/ ~response.has_text
    THEN [value |-> None, raised |-> TRUE]
    ELSE [value |-> response.text, raised |-> FALSE]

IdleCall ==
    [pc |-> "idle", session_id |-> None, input |-> None, provider |-> None,
     store |-> None, backend |-> None, sent |-> <<>>, prior |-> <<>>]

InFlight == {c \in Callers : calls[c].pc = "called"}

TurnsProduced == Len(produced["s1"]) + Len(produced["s2"])

\* invoke, first half: RunnableWithMessageHistory fetches the session's
\* history object, reads its messages, fills the prompt and calls the model
InvokeBegin(c) ==
    /\ pc = "constructed"
    /\ calls[c].pc = "idle"
    /\ TurnsProduced + 2 * Cardinality(InFlight) + 2 <= 2 * MaxCalls
    /\ \E user_input \in Inputs, session_id \in Sessions :
          LET hist == get_session_history(config, db, session_id)
          IN calls' = [calls EXCEPT ![c] =
                [pc |-> "called", session_id |-> session_id,
                 input |-> user_input, provider |-> config.LLM_PROVIDER,
                 store |-> hist.store, backend |-> agent.langchain_llm.kind,
                 sent |-> format_prompt(hist.messages, user_input),
                 prior |-> produced[session_id]]]
    /\ UNCHANGED <<env, pc, config, agent, genai_api_key, db, produced,
                   result, genLog>>

\* invoke, second half: the model answers or fails; on success the input and
\* the reply are added to the history object, and the reply text is returned
InvokeEnd(c) ==
    /\ calls[c].pc = "called"
    /\ \E outcome \in Outcomes :
          LET call == calls[c]
              response == BackendCall(call.sent, outcome)
              ret == invoke_return(response)
              turns == <<Message("human", call.input),
                         Message("ai", response.text)>>
          IN /\ result' = [op |-> "invoke", input |-> call.input,
                           session_id |-> call.session_id,
                           outcome |-> outcome, value |-> ret.value,
                           raised |-> ret.raised, sent |-> call.sent]
             /\ IF ret.raised
                THEN UNCHANGED <<db, produced>>
                ELSE /\ db' = IF call.store = "sql"
                              THEN [db EXCEPT ![call.session_id] =
                                       add_messages(@, turns)]
                              ELSE db
                     /\ produced' = [produced EXCEPT ![call.session_id] =
                                        @ \o turns]
    /\ calls' = [calls EXCEPT ![c] = IdleCall]
    /\ UNCHANGED <<env, pc, config, agent, genai_api_key, genLog>>

\* ------------------------------------------------------------ specifications
TypeOK ==
    /\ pc \in {"start", "loaded", "constructed", "failed"}
    /\ \A c \in Callers : calls[c].pc \in {"idle", "called"}
    /\ \A s \in Sessions : Len(db[s]) <= 2 * MaxCalls

InitState ==
    /\ pc = "start"
    /\ config = NoConfig
    /\ agent = NoAgent
    /\ genai_api_key = None
    /\ db = [s \in Sessions |-> <<>>]
    /\ calls = [c \in Callers |-> IdleCall]
    /\ produced = [s \in Sessions |-> <<>>]
    /\ result = NoResult
    /\ genLog = {}

\* every environment snapshot the selector can be given
InitSelect ==
    /\ env \in [ENVIRONMENT : EnvironmentValues,
                GOOGLE_API_KEY : ApiKeyValues,
                GEMINI_MODEL : GeminiModelValues,
                OLLAMA_MODEL : OllamaModelValues,
                OLLAMA_BASE_URL : OllamaUrlValues,
                DATABASE_URL : DatabaseUrlValues]
    /\ InitState

\* a deployment that leaves the optional model settings at their defaults
Init ==
    /\ env \in [ENVIRONMENT : {None, "production"},
                GOOGLE_API_KEY : {None, "key"},
                GEMINI_MODEL : {None},
                OLLAMA_MODEL : {None},
                OLLAMA_BASE_URL : {None},
                DATABASE_URL : {None, "sqlite:///prod_memory.db"}]
    /\ InitState

\* import config: config.py runs once, top to bottom
LoadConfig ==
    /\ pc = "start"
    /\ config' = get_config(env)
    /\ pc' = "loaded"
    /\ UNCHANGED <<env, agent, genai_api_key>>
    /\ UNCHANGED convVars

\* the environment's provider flag is changed (os.environ["ENVIRONMENT"] = v)
SetEnv ==
    /\ \E v \in {None, "production"} :
          /\ v # env["ENVIRONMENT"]
          /\ env' = [env EXCEPT !["ENVIRONMENT"] = v]
    /\ UNCHANGED <<pc, config, agent, genai_api_key>>
    /\ UNCHANGED convVars

\* AIAgent(): __init__ runs _initialize_llm, then builds prompt and chain
Construct ==
    /\ pc = "loaded"
    /\ LET a == InitializedAgent(env)
       IN IF a.production_env /\ MissingKey(env["GOOGLE_API_KEY"])
          THEN \* raise ValueError before genai.configure
               /\ pc' = "failed"
               /\ UNCHANGED <<agent, genai_api_key>>
          ELSE /\ pc' = "constructed"
               /\ agent' = a
               /\ genai_api_key' =
                     IF a.production_env THEN env["GOOGLE_API_KEY"]
                     ELSE genai_api_key
    /\ UNCHANGED <<env, config>>
    /\ UNCHANGED convVars

NextSelect == LoadConfig \/ SetEnv \/ Construct

SpecSelect == InitSelect /\ [][NextSelect]_vars

Next ==
    \/ LoadConfig
    \/ SetEnv
    \/ Construct
    \/ GenerateText
    \/ \E c \in Callers : InvokeBegin(c)
    \/ \E c \in Callers : InvokeEnd(c)

Spec == Init /\ [][Next]_vars
\* ------------------------------------------------------------------ helpers
IsPrefix(p, q) == Len(p) <= Len(q) /\ SubSeq(q, 1, Len(p)) = p

\* the turns the facade finds stored for a session when it looks it up
StoredTurns(s) == get_session_history(config, db, s).messages

\* the history part of a message list sent by invoke (without the system
\* instruction and the new input)
HistoryPart(sent) == SubSeq(sent, 2, Len(sent) - 1)

VariantOf(a) == IF a.production_env THEN "gemini" ELSE "ollama"

\* ------------------------------------------------------------------- claims

\* C1: the message list handed to the backend by a converse call on session s
\* is the system instruction, then the turns of the earlier successful calls
\* on s in order, then the new user input, in every mode.
C1_HistoryReinjected ==
    \A c \in InFlight :
        calls[c].sent = format_prompt(calls[c].prior, calls[c].input)

\* C2: generate never propagates an exception: when the backend call raises
\* or the response lacks the reply field it returns the fallback string,
\* otherwise the backend's reply text.
C2_GenerateNeverRaises ==
    result.op = "generate" =>
        /\ ~result.raised
        /\ result.outcome \in {"raise", "malformed"} =>
              result.value = FallbackText
        /\ result.outcome = "ok" => result.value = Reply(result.sent)

C2_Witness ==
    /\ result.op = "generate"
    /\ result.outcome = "malformed"
    /\ result.value = FallbackText
    /\ agent.production_env

\* C3: a backend failure during converse is absorbed and converse returns
\* the fallback string; no generate or converse call raises.
C3_ConverseAbsorbsFailure ==
    result.op \in {"generate", "invoke"} =>
        /\ ~result.raised
        /\ result.outcome \in {"raise", "malformed"} =>
              result.value = FallbackText

\* C4: with the hosted provider selected and the credential absent or empty,
\* construction fails before any backend client is configured and no facade
\* exists afterwards; with a non-empty credential it does not fail.
C4_MissingCredentialFailsFast ==
    /\ pc = "failed" =>
          /\ ~Truthy(env["GOOGLE_API_KEY"])
          /\ genai_api_key = None
          /\ agent = NoAgent
    /\ (pc = "constructed" /\ agent.production_env) =>
          /\ Truthy(env["GOOGLE_API_KEY"])
          /\ genai_api_key = env["GOOGLE_API_KEY"]
          /\ agent.llm.target = env["GOOGLE_API_KEY"]

C4_Witness ==
    /\ pc = "failed"
    /\ env["GOOGLE_API_KEY"] = ""
    /\ genai_api_key = None

\* C5: no turn of another session appears in the history supplied to the
\* backend for a session, and each session's stored turn sequence is exactly
\* the turns produced by that session's own calls, in call order.
C5_SessionsIsolated ==
    /\ \A c \in InFlight :
          IsPrefix(HistoryPart(calls[c].sent), produced[calls[c].session_id])
    /\ \A s \in Sessions : StoredTurns(s) = produced[s]

\* C6: concurrent converse calls on one session_id access its history one at
\* a time, and the stored history is a sequence of user-turn/reply pairs.
C6_PerSessionMutualExclusion ==
    /\ \A c1, c2 \in InFlight :
          c1 # c2 => calls[c1].session_id # calls[c2].session_id
    /\ \A s \in Sessions : \A i \in 1..Len(db[s]) :
          db[s][i].role = (IF i % 2 = 1 THEN "human" ELSE "ai")

\* C7: the variant used for the backend call and for choosing the history
\* store of every call is the one resolved when the facade was constructed.
C7_VariantFixedAtConstruction ==
    \A c \in InFlight :
        /\ calls[c].backend = VariantOf(agent)
        /\ calls[c].provider = VariantOf(agent)

\* C8: session history is append-only: every step leaves the stored history
\* of every session a prefix of what is stored afterwards.
C8_AppendOnly ==
    [][\A s \in Sessions : IsPrefix(db[s], db'[s])]_vars

C8_Witness ==
    \E s \in Sessions : Len(db[s]) >= 4

\* C9: after every successful construction the configured model_id is a
\* non-empty string, whatever the model-name setting of the environment.
C9_ModelIdNonEmpty ==
    pc = "constructed" => Truthy(agent.current_model)

\* C10: generate is stateless: equal prompts get equal text whatever calls
\* happen before or between them, the backend receives the single user
\* message only, and generate leaves every session's history unchanged.
C10_GenerateStateless ==
    /\ [](/\ \A a, b \in genLog : a[1] = b[1] => a[2] = b[2]
          /\ result.op = "generate" =>
                result.sent = <<Message("user", result.input)>>)
    /\ [][result'.op = "generate" => db' = db]_vars

C10_Witness ==
    /\ result.op = "generate"
    /\ result.outcome = "ok"
    /\ \E s \in Sessions : Len(db[s]) >= 2
    /\ Cardinality(genLog) = 2
====
